---- MODULE Spec2Model ----
(***************************************************************************)
(* XBioScraper: job partitioning and worker orchestration.                 *)
(*                                                                         *)
(* main.py clamps the requested index window against the number of rows of *)
(* the input file, walks the rows once, puts the rows of the window into   *)
(* multiprocessing queues of num_of_jobs_each_process rows, starts one     *)
(* child process per queue, joins them and prints a summary.  worker.py is *)
(* the child: it drains its queue while queue.empty() is false.            *)
(*                                                                         *)
(* A record is identified with its row index in the input file.            *)
(*                                                                         *)
(* A multiprocessing.Queue is a buffer in the putting process, a feeder    *)
(* thread of that process and a pipe: put() appends to the buffer and      *)
(* returns, the feeder moves the buffer's head into the pipe later,        *)
(* empty() polls the pipe, get() reads the pipe, and qsize() is the number *)
(* of puts minus the number of gets (a shared semaphore).                  *)
(*                                                                         *)
(* The value of --range is kept as the list of parts value.split('-')      *)
(* gives, each part a string.  A row of the input file either has a 'name' *)
(* field or not; the worker's progress line reads cur_journalist['name'].  *)
(***************************************************************************)
EXTENDS Integers, Sequences, FiniteSets, TLC

\* ------------------------------------------------------------------ bounds
MaxRecords == 3     \* rows of the input file: 0..MaxRecords
MaxIndex == 3       \* raw range bounds: 0..MaxIndex
MaxNp == 2          \* --number-of-processes: 0..MaxNp
MaxNameless == 1    \* rows of the input file without a 'name' field

VARIABLES
    raw,                       \* the --range value split at '-', <<>> if not given
    getfromdb,                 \* args.getfromdb
    nameless,                  \* indices of the rows without a 'name' field
    file_open,                 \* retrieve_info_from_database: file is open
    client_open,               \* retrieve_info_from_database: client is connected
    db_error,                  \* retrieve_info_from_database raised an exception
    journalists,               \* rows of the input file, in file order
    np,                        \* args.np
    range,                     \* args.range, as returned by index_range
    pc,                        \* position of the main process
    exit_code,                 \* -1 while the main process runs
    max_index,
    start,
    end,
    num_of_jobs,
    num_of_jobs_each_process,
    cur_index,
    cur_queue,                 \* index into queues of the queue being filled
    queues,                    \* every multiprocessing.Queue() created so far
    processes,                 \* the list of started Process handles
    workers,                   \* the child process of each handle
    joined                     \* handles the join loop has passed

vars == <<raw, getfromdb, nameless, file_open, client_open, db_error,
          journalists, np, range, pc, exit_code, max_index, start, end,
          num_of_jobs, num_of_jobs_each_process, cur_index, cur_queue,
          queues, processes, workers, joined>>

\* what no action after the argument parsing changes, and the resources of
\* the database refresh
env == <<raw, getfromdb, nameless, file_open, client_open, db_error>>

\* ----------------------------------------------------------------- helpers
Min(a, b) == IF a <= b THEN a ELSE b

\* math.ceil(a / b) for a >= 0, b >= 1 (exact in the float range used here)
Ceil(a, b) == (a + b - 1) \div b

\* multiprocessing.Queue(): empty buffer, empty pipe
NewQueue == [buf |-> <<>>, pipe |-> <<>>]

\* Queue.qsize(): puts minus gets
qsize(q) == Len(queues[q].buf) + Len(queues[q].pipe)

\* an emptiness test that never says empty
emptyNever(q) == FALSE

\* Queue.empty(): nothing to read in the pipe
empty(q) == queues[q].pipe = <<>>

\* a put that goes to the front of the buffer (LIFO)
putFront(q, obj) == [queues EXCEPT ![q].buf = <<obj>> \o @]

\* Queue.put(obj): append to the buffer of the putting process
put(q, obj) == [queues EXCEPT ![q].buf = Append(@, obj)]

\* a get that leaves the record in the pipe
getPeek(q) == queues

\* Queue.get(): remove the head of the pipe
get(q) == [queues EXCEPT ![q].pipe = Tail(@)]

\* the decimal numerals int() is applied to here
Digits == <<"0", "1", "2", "3", "4", "5", "6", "7", "8", "9">>

\* int(t) raises ValueError unless t is a numeral ("" and "x" are not)
IsInt(t) == \E k \in 1..Len(Digits) : Digits[k] = t

\* int(t) for a numeral t
int(t) == (CHOOSE k \in 1..Len(Digits) : Digits[k] = t) - 1

\* line 83: the unpacking `start, end = ...` takes exactly two parts
RangeParts == 2

\* line 140: default=(0,9999999), used as it is when --range is not given
DefaultRange == <<0, 9999999>>

\* what index_range gives when it raises ArgumentTypeError
Rejected == <<>>

\* an index_range that does not compare start with end
index_range_unordered(value) ==
    IF Len(value) # RangeParts \/ \E i \in 1..Len(value) : ~IsInt(value[i])
    THEN Rejected
    ELSE <<int(value[1]), int(value[2])>>

\* lines 78-89: value.split('-') must be two numerals with start <= end;
\* every ValueError (a part that is no numeral, too few or too many parts)
\* and start > end end in ArgumentTypeError
index_range(value) ==
    IF Len(value) # RangeParts \/ \E i \in 1..Len(value) : ~IsInt(value[i])
    THEN Rejected
    ELSE IF int(value[1]) > int(value[2])
         THEN Rejected
         ELSE <<int(value[1]), int(value[2])>>

\* the parts a --range value is made of here: numerals, "" (as in "5-")
\* and a word
Parts == {Digits[k + 1] : k \in 0..MaxIndex} \cup {"", "x"}

\* the --range values: one part too few, the right number, one too many
RawRanges == UNION {[1..n -> Parts] : n \in (RangeParts - 1)..(RangeParts + 1)}

\* lines 20-35
COLORS == <<"Green", "Yellow", "Blue", "Magenta", "Cyan", "White", "Dark Red",
            "Dark Green", "Dark Yellow", "Dark Blue", "Dark Magenta",
            "Dark Cyan", "Light Gray", "Dark Gray">>

\* the palette indexed without the modulo, the last colour past its end
printclr_clipped(process_id) ==
    COLORS[Min(process_id, Len(COLORS) - 1) + 1]

\* line 119: COLORS[process_id % len(COLORS)]
printclr(process_id) == COLORS[(process_id % Len(COLORS)) + 1]

\* the input files: rows 0..n-1
Sources == {[i \in 1..n |-> i - 1] : n \in 0..MaxRecords}

\* no clamp
ClampNone(x, n) == x

\* line 154, one side of the clamp
Clamp(x, n) == Min(x, n)

\* floor instead of ceil
JobsEachProcessFloor(n, w) == n \div w

\* line 156
JobsEachProcess(n, w) == Ceil(n, w)

\* the break test off by one
VisitPastEnd(i) ==
    IF i < start THEN "continue"
    ELSE IF i > end THEN "break"
    ELSE "put"

\* lines 160-162: what the loop does with the row of index i
Visit(i) ==
    IF i < start THEN "continue"
    ELSE IF i >= end THEN "break"
    ELSE "put"

\* strict comparison
QueueOverFull(q) == qsize(q) > num_of_jobs_each_process

\* line 163: the current queue has reached the batch size
QueueFull(q) == qsize(q) >= num_of_jobs_each_process

\* a join that does not wait
JoinableAlways(w) == TRUE

\* line 171: process.join() returns when the child process has exited,
\* from the end of Worker.start or from an exception that was not caught
Joinable(w) == workers[w].pc \in {"Terminated", "Failed"}

\* -------------------------------------------------------------------- Init
\* State at line 132: the command line is given, nothing is parsed yet.
Init ==
    /\ raw \in RawRanges \cup {<<>>}
    /\ getfromdb \in BOOLEAN
    /\ journalists \in Sources
    /\ nameless \in {b \in SUBSET (0..(Len(journalists) - 1)) :
                         Cardinality(b) <= MaxNameless}
    /\ file_open = FALSE
    /\ client_open = FALSE
    /\ db_error = FALSE
    /\ np \in 0..MaxNp
    /\ range = <<0, 0>>
    /\ start = 0
    /\ end = 0
    /\ pc = "parse"
    /\ exit_code = -1
    /\ max_index = 0
    /\ num_of_jobs = 0
    /\ num_of_jobs_each_process = 0
    /\ cur_index = -1
    /\ cur_queue = 0
    /\ queues = <<>>
    /\ processes = <<>>
    /\ workers = <<>>
    /\ joined = 0

\* ------------------------------------------------------------ main process
\* lines 135-141: parse_args applies index_range to the --range value; an
\* ArgumentTypeError ends the run in parser.error (usage message, status 2)
ParseArgs ==
    /\ pc = "parse"
    /\ LET r == IF raw = <<>> THEN DefaultRange ELSE index_range(raw) IN
       IF r = Rejected
         THEN /\ pc' = "usage_error"
              /\ exit_code' = 2
              /\ UNCHANGED range
         ELSE /\ range' = r
              /\ pc' = "getfromdb"
              /\ UNCHANGED exit_code
    /\ UNCHANGED <<env, journalists, np, max_index, start, end, num_of_jobs,
                   num_of_jobs_each_process, cur_index, cur_queue, queues,
                   processes, workers, joined>>

\* lines 146-148 (and line 145 without --getfromdb): start, end = args.range
ApplyArgs ==
    /\ \/ pc = "getfromdb" /\ ~getfromdb
       \/ pc = "apply"
    /\ start' = range[1]
    /\ end' = range[2]
    /\ pc' = "clamp"
    /\ UNCHANGED <<env, journalists, np, range, exit_code, max_index, num_of_jobs,
                   num_of_jobs_each_process, cur_index, cur_queue, queues,
                   processes, workers, joined>>

\* the except branch without its sys.exit(1): the error is only printed
ExportFailedContinue ==
    /\ db_error' = TRUE
    /\ file_open' = FALSE
    /\ client_open' = FALSE
    /\ pc' = "apply"
    /\ UNCHANGED exit_code

\* lines 68-75: the except branch closes the file and the client and calls
\* sys.exit(1); the finally branch closes them once more
ExportFailed ==
    /\ db_error' = TRUE
    /\ file_open' = FALSE
    /\ client_open' = FALSE
    /\ pc' = "export_failed"
    /\ exit_code' = 1

\* lines 56-60 (line 145 with --getfromdb): open the destination file and
\* write the header; an OSError of open() is not caught and ends the run
RetrieveOpen ==
    /\ pc = "getfromdb" /\ getfromdb
    /\ \/ /\ file_open' = TRUE
          /\ pc' = "db_connect"
          /\ UNCHANGED <<exit_code, db_error>>
       \/ /\ db_error' = TRUE
          /\ pc' = "export_failed"
          /\ exit_code' = 1
          /\ UNCHANGED file_open
    /\ UNCHANGED <<raw, getfromdb, nameless, client_open, journalists, np, range,
                   max_index, start, end, num_of_jobs, num_of_jobs_each_process,
                   cur_index, cur_queue, queues, processes, workers, joined>>

\* lines 62-63: MongoClient(...) gives the client or raises
RetrieveConnect ==
    /\ pc = "db_connect"
    /\ \/ /\ client_open' = TRUE
          /\ pc' = "db_write"
          /\ UNCHANGED <<file_open, exit_code, db_error>>
       \/ ExportFailed
    /\ UNCHANGED <<raw, getfromdb, nameless, journalists, np, range,
                   max_index, start, end, num_of_jobs, num_of_jobs_each_process,
                   cur_index, cur_queue, queues, processes, workers, joined>>

\* lines 64-67 and 73-75: the rows of the collection, each with a name, are
\* written to DBINFO_SAVE_PATH, then the finally branch closes the file and
\* the client; or find() or writerow() raises.  The input file is the
\* written file, or another one when --input-path is given.
RetrieveWrite ==
    /\ pc = "db_write"
    /\ \/ /\ journalists' \in Sources
          /\ nameless' = {}
       \/ UNCHANGED <<journalists, nameless>>
    /\ \/ /\ file_open' = FALSE
          /\ client_open' = FALSE
          /\ pc' = "apply"
          /\ UNCHANGED <<exit_code, db_error>>
       \/ ExportFailed
    /\ UNCHANGED <<raw, getfromdb, np, range,
                   max_index, start, end, num_of_jobs, num_of_jobs_each_process,
                   cur_index, cur_queue, queues, processes, workers, joined>>

\* lines 152-155: count the rows, clamp the range, count the jobs
ClampRange ==
    /\ pc = "clamp"
    /\ max_index' = Len(journalists)
    /\ start' = Clamp(start, Len(journalists))
    /\ end' = Clamp(end, Len(journalists))
    /\ num_of_jobs' = Clamp(end, Len(journalists)) - Clamp(start, Len(journalists))
    /\ pc' = "batch"
    /\ UNCHANGED <<env, journalists, np, range, exit_code, num_of_jobs_each_process,
                   cur_index, cur_queue, queues, processes, workers, joined>>

\* a batch size computed with at least one process
ComputeBatchAtLeastOne ==
    /\ pc = "batch"
    /\ num_of_jobs_each_process' =
          (num_of_jobs + (IF np = 0 THEN 1 ELSE np) - 1) \div (IF np = 0 THEN 1 ELSE np)
    /\ cur_index' = -1
    /\ queues' = Append(queues, [buf |-> <<>>, pipe |-> <<>>])
    /\ cur_queue' = Len(queues) + 1
    /\ pc' = "loop"
    /\ UNCHANGED <<env, journalists, np, range, exit_code, max_index, start, end,
                   num_of_jobs, processes, workers, joined>>

\* lines 156-157: batch size (ZeroDivisionError when np = 0), first queue
ComputeBatch ==
    /\ pc = "batch"
    /\ IF np = 0
         THEN /\ pc' = "crashed"
              /\ exit_code' = 1
              /\ UNCHANGED <<num_of_jobs_each_process, cur_index, cur_queue, queues>>
         ELSE /\ num_of_jobs_each_process' = JobsEachProcess(num_of_jobs, np)
              /\ cur_index' = -1
              /\ queues' = Append(queues, NewQueue)
              /\ cur_queue' = Len(queues) + 1
              /\ pc' = "loop"
              /\ UNCHANGED exit_code
    /\ UNCHANGED <<env, journalists, np, range, max_index, start, end, num_of_jobs,
                   processes, workers, joined>>

\* lines 158-162: next row of load_journalists, skip / break / put
LoopStep ==
    /\ pc = "loop"
    /\ IF cur_index + 1 >= Len(journalists)
         THEN \* the generator is exhausted
              /\ pc' = "leftover"
              /\ UNCHANGED <<cur_index, queues>>
         ELSE /\ cur_index' = cur_index + 1
              /\ CASE Visit(cur_index + 1) = "continue" ->
                          /\ pc' = "loop"
                          /\ UNCHANGED queues
                     [] Visit(cur_index + 1) = "break" ->
                          /\ pc' = "leftover"
                          /\ UNCHANGED queues
                     [] OTHER ->
                          /\ queues' = put(cur_queue, journalists[cur_index + 2])
                          /\ pc' = "check"
    /\ UNCHANGED <<env, journalists, np, range, exit_code, max_index, start, end,
                   num_of_jobs, num_of_jobs_each_process, cur_queue,
                   processes, workers, joined>>

\* worker state right after Process.start(): forked, Worker not yet built
NewWorker == [pc |-> "Created", process_id |-> -1, printclr |-> "",
              total |-> 0, count |-> 0, done |-> <<>>, reports |-> <<>>]

\* ordinals counted from 1
start_new_process_from_one ==
    /\ processes' = Append(processes,
                      [process_id |-> Len(processes) + 1, queue |-> cur_queue])
    /\ workers' = Append(workers, [pc |-> "Created", process_id |-> -1,
                                   printclr |-> "", total |-> 0, count |-> 0,
                                   done |-> <<>>, reports |-> <<>>])

\* lines 123-127 with args = (len(processes), VERBOSE_MODE, cur_queue)
start_new_process ==
    /\ processes' = Append(processes,
                      [process_id |-> Len(processes), queue |-> cur_queue])
    /\ workers' = Append(workers, NewWorker)

\* a full queue is handed to a new process and then filled further
CheckSpawnNoReset ==
    /\ pc = "check"
    /\ IF QueueFull(cur_queue)
         THEN /\ start_new_process
              /\ UNCHANGED <<queues, cur_queue>>
         ELSE UNCHANGED <<processes, workers, queues, cur_queue>>
    /\ pc' = "loop"
    /\ UNCHANGED <<env, journalists, np, range, exit_code, max_index, start, end,
                   num_of_jobs, num_of_jobs_each_process, cur_index, joined>>

\* lines 163-165: a full queue is handed to a new process and replaced
CheckSpawn ==
    /\ pc = "check"
    /\ IF QueueFull(cur_queue)
         THEN /\ start_new_process
              /\ queues' = Append(queues, NewQueue)
              /\ cur_queue' = Len(queues) + 1
         ELSE UNCHANGED <<processes, workers, queues, cur_queue>>
    /\ pc' = "loop"
    /\ UNCHANGED <<env, journalists, np, range, exit_code, max_index, start, end,
                   num_of_jobs, num_of_jobs_each_process, cur_index, joined>>

\* lines 167-169: the leftover queue
Leftover ==
    /\ pc = "leftover"
    /\ IF qsize(cur_queue) # 0
         THEN /\ start_new_process
              /\ queues' = Append(queues, NewQueue)
              /\ cur_queue' = Len(queues) + 1
         ELSE UNCHANGED <<processes, workers, queues, cur_queue>>
    /\ pc' = "join"
    /\ UNCHANGED <<env, journalists, np, range, exit_code, max_index, start, end,
                   num_of_jobs, num_of_jobs_each_process, cur_index, joined>>

\* line 171, one iteration: process.join() returns once the child has exited
JoinStep ==
    /\ pc = "join"
    /\ joined < Len(processes)
    /\ Joinable(joined + 1)
    /\ joined' = joined + 1
    /\ UNCHANGED <<env, journalists, np, range, pc, exit_code, max_index, start, end,
                   num_of_jobs, num_of_jobs_each_process, cur_index, cur_queue,
                   queues, processes, workers>>

\* line 171, the loop over processes is finished
JoinDone ==
    /\ pc = "join"
    /\ joined = Len(processes)
    /\ pc' = "summary"
    /\ UNCHANGED <<env, journalists, np, range, exit_code, max_index, start, end,
                   num_of_jobs, num_of_jobs_each_process, cur_index, cur_queue,
                   queues, processes, workers, joined>>

\* lines 175-178: elapsed_time / num_of_jobs is evaluated to build the line
Summary ==
    /\ pc = "summary"
    /\ IF num_of_jobs = 0
         THEN /\ pc' = "crashed"
              /\ exit_code' = 1
         ELSE /\ pc' = "exit"
              /\ UNCHANGED exit_code
    /\ UNCHANGED <<env, journalists, np, range, max_index, start, end,
                   num_of_jobs, num_of_jobs_each_process, cur_index, cur_queue,
                   queues, processes, workers, joined>>

\* line 181: os._exit(0)
Exit ==
    /\ pc = "exit"
    /\ pc' = "exited"
    /\ exit_code' = 0
    /\ UNCHANGED <<env, journalists, np, range, max_index, start, end,
                   num_of_jobs, num_of_jobs_each_process, cur_index, cur_queue,
                   queues, processes, workers, joined>>

\* ------------------------------------------------------------ feeder thread
\* cur_queue.put (line 162) returns before the row is in the pipe; the
\* queue's feeder thread of the main process writes it there later.  The
\* thread dies with the main process at os._exit.
Feeder(q) ==
    /\ pc # "exited"
    /\ queues[q].buf # <<>>
    /\ queues' = [queues EXCEPT ![q] =
                    [buf |-> Tail(@.buf), pipe |-> Append(@.pipe, Head(@.buf))]]
    /\ UNCHANGED <<env, journalists, np, range, pc, exit_code, max_index, start, end,
                   num_of_jobs, num_of_jobs_each_process, cur_index, cur_queue,
                   processes, workers, joined>>

\* ------------------------------------------------------------------ workers
\* worker.py 4-17 (via main.py 118-120): total = queue.qsize(), count = 1
WorkerInit(w) ==
    /\ workers[w].pc = "Created"
    /\ workers' = [workers EXCEPT ![w].pc = "Draining",
                                  ![w].process_id = processes[w].process_id,
                                  ![w].printclr = printclr(processes[w].process_id),
                                  ![w].total = qsize(processes[w].queue),
                                  ![w].count = 1]
    /\ UNCHANGED <<env, journalists, np, range, pc, exit_code, max_index, start, end,
                   num_of_jobs, num_of_jobs_each_process, cur_index, cur_queue,
                   queues, processes, joined>>

\* worker.py 18: while not self.queue.empty()
WorkerCheck(w) ==
    /\ workers[w].pc = "Draining"
    /\ workers' = [workers EXCEPT ![w].pc =
                     IF empty(processes[w].queue) THEN "Terminated" ELSE "Getting"]
    /\ UNCHANGED <<env, journalists, np, range, pc, exit_code, max_index, start, end,
                   num_of_jobs, num_of_jobs_each_process, cur_index, cur_queue,
                   queues, processes, joined>>

\* worker.py 19-20: get the head record, print "(count/total) Processing
\* <name>..."; cur_journalist['name'] raises KeyError for a row without a
\* name, nothing catches it and the child process ends with a traceback
WorkerGet(w) ==
    /\ workers[w].pc = "Getting"
    /\ queues[processes[w].queue].pipe # <<>>
    /\ queues' = get(processes[w].queue)
    /\ LET cur_journalist == Head(queues[processes[w].queue].pipe) IN
       IF cur_journalist \in nameless
         THEN workers' = [workers EXCEPT
                     ![w].pc = "Failed",
                     ![w].done = Append(@, cur_journalist)]
         ELSE workers' = [workers EXCEPT
                     ![w].pc = "Draining",
                     ![w].done = Append(@, cur_journalist),
                     ![w].reports = Append(@, <<workers[w].count, workers[w].total>>)]
    /\ UNCHANGED <<env, journalists, np, range, pc, exit_code, max_index, start, end,
                   num_of_jobs, num_of_jobs_each_process, cur_index, cur_queue,
                   processes, joined>>

\* -------------------------------------------------------------------- Next
Next ==
    \/ ParseArgs
    \/ ApplyArgs
    \/ RetrieveOpen
    \/ RetrieveConnect
    \/ RetrieveWrite
    \/ ClampRange
    \/ ComputeBatch
    \/ LoopStep
    \/ CheckSpawn
    \/ Leftover
    \/ JoinStep
    \/ JoinDone
    \/ Summary
    \/ Exit
    \/ \E q \in 1..Len(queues) : Feeder(q)
    \/ \E w \in 1..Len(workers) : WorkerInit(w)
    \/ \E w \in 1..Len(workers) : WorkerCheck(w)
    \/ \E w \in 1..Len(workers) : WorkerGet(w)

Spec == Init /\ [][Next]_vars

\* ================================================================== claims
\* the processes started so far, by position in the list
Handed == 1..Len(processes)

\* every record ever put into queue q, in put order: what its worker has
\* taken out, then what is in the pipe, then what is still in the buffer
QContent(q) ==
    LET owners == {w \in Handed : processes[w].queue = q}
        taken == IF owners = {} THEN <<>> ELSE workers[CHOOSE w \in owners : TRUE].done
    IN  taken \o queues[q].pipe \o queues[q].buf

\* the batch handed to the w-th started process
Batch(w) == QContent(processes[w].queue)

RECURSIVE ConcatBatches(_)
ConcatBatches(k) == IF k = 0 THEN <<>> ELSE ConcatBatches(k - 1) \o Batch(k)

RECURSIVE ConcatQueues(_)
ConcatQueues(k) == IF k = 0 THEN <<>> ELSE ConcatQueues(k - 1) \o QContent(k)

RECURSIVE ConcatDone(_)
ConcatDone(k) == IF k = 0 THEN <<>> ELSE ConcatDone(k - 1) \o workers[k].done

NoDuplicates(s) == \A i, j \in 1..Len(s) : s[i] = s[j] => i = j

\* ceil(n / w) as the least k with k * w >= n
CeilOf(n, w) == CHOOSE k \in 0..n : k * w >= n /\ (k - 1) * w < n

\* the partition loop and the leftover step are over
PartitionDone ==
    \/ pc \in {"join", "summary", "exit", "exited"}
    \/ pc = "crashed" /\ np # 0

\* positions of the main process before line 154
PreClamp == {"parse", "usage_error", "getfromdb", "db_connect", "db_write",
             "export_failed", "apply", "clamp"}

\* the window is clamped and the batch size is computed
Partitioning == pc \notin PreClamp /\ pc # "batch" /\ np >= 1

\* the child process of the w-th handle has exited
Exited(w) == workers[w].pc \in {"Terminated", "Failed"}

\* C1: for a non-empty clamped window and W >= 1, every handed-off batch has
\* between 1 and ceil((e'-s')/W) records, every batch but the last has
\* exactly ceil((e'-s')/W), and once partitioning is over the sizes sum to
\* e'-s'.
C1_BatchSizes ==
    (Partitioning /\ end > start) =>
        LET B == CeilOf(end - start, np) IN
        /\ \A w \in Handed : Len(Batch(w)) >= 1 /\ Len(Batch(w)) <= B
        /\ \A w \in Handed : w < Len(processes) => Len(Batch(w)) = B
        /\ PartitionDone => Len(ConcatBatches(Len(processes))) = end - start

C1_Witness ==
    /\ PartitionDone /\ np >= 1
    /\ Len(processes) >= 2
    /\ Len(Batch(1)) = 2
    /\ Len(Batch(Len(processes))) = 1

\* C2: the handed-off batches, concatenated in spawn order, are the records
\* of indices start, start+1, ... in source order, never past end-1, and
\* once partitioning is over they are exactly the records start..end-1.
C2_ConcatIsWindow ==
    Partitioning =>
        LET c == ConcatBatches(Len(processes)) IN
        /\ \A k \in 1..Len(c) :
              /\ c[k] = start + k - 1
              /\ c[k] < end
              /\ c[k] = journalists[start + k]
        /\ PartitionDone => Len(c) = end - start

C2_Witness ==
    /\ PartitionDone /\ np >= 1
    /\ Len(processes) >= 1
    /\ start > 0
    /\ Len(Batch(1)) >= 2

\* C3: for a non-empty window and W >= 1, once partitioning is over the
\* number of started workers is the number of non-empty queues, equals
\* ceil(window length / batch size) and is at most W.
C3_WorkerCount ==
    (PartitionDone /\ np >= 1 /\ end > start) =>
        LET B == CeilOf(end - start, np) IN
        /\ Len(processes) = Cardinality({q \in 1..Len(queues) : QContent(q) # <<>>})
        /\ Len(processes) = CeilOf(end - start, B)
        /\ Len(processes) <= np

C3_Witness ==
    /\ PartitionDone /\ np >= 1 /\ end > start
    /\ Len(processes) >= 1
    /\ Len(processes) < np

\* the window after line 154 is (min(s, N), min(e, N)), inside [0, N]
ClampedOK ==
    LET N == Len(journalists) IN
    /\ start = (IF range[1] <= N THEN range[1] ELSE N)
    /\ end = (IF range[2] <= N THEN range[2] ELSE N)
    /\ 0 <= start /\ start <= end /\ end <= N
    /\ max_index = N
    /\ range[1] >= N => start = end

\* C4: for every accepted raw window and record count N, the clamped window
\* is (min(s, N), min(e, N)) with 0 <= s' <= e' <= N, a window past the end
\* of the data becomes empty, and the clamping step never fails.
C4_Clamped ==
    /\ [](pc \notin PreClamp => ClampedOK)
    /\ [][pc = "clamp" => pc' = "batch"]_vars

C4_Witness ==
    /\ pc = "batch"
    /\ range[1] > Len(journalists)
    /\ Len(journalists) > 0
    /\ start = end

\* C5: no record is in two queues or twice in one, no record is processed
\* twice or by two workers, and once partitioning is over the records placed
\* in queues are exactly those of the window.
C5_AtMostOnce ==
    /\ NoDuplicates(ConcatQueues(Len(queues)))
    /\ NoDuplicates(ConcatDone(Len(workers)))
    /\ (PartitionDone /\ np >= 1) =>
          {ConcatQueues(Len(queues))[k] : k \in 1..Len(ConcatQueues(Len(queues)))}
              = start..(end - 1)

C5_Witness ==
    /\ pc = "join"
    /\ Len(workers) >= 2
    /\ workers[1].done # <<>>
    /\ workers[2].done # <<>>

\* C6: the main process is past the join loop only when every started worker
\* has terminated, and with no worker started the join loop can be left at
\* once.
C6_JoinBarrier ==
    /\ (pc \in {"summary", "exit", "exited"} \/ (pc = "crashed" /\ np # 0)) =>
          \A w \in 1..Len(workers) : Exited(w)
    /\ (pc = "join" /\ processes = <<>>) => ENABLED JoinDone

C6_Witness ==
    /\ pc = "summary"
    /\ Len(processes) >= 2
    /\ joined = Len(processes)

\* C7 (as claimed): a terminated worker has an empty queue and has processed
\* every record put into its queue.
C7_TerminatedDrained ==
    \A w \in 1..Len(workers) :
        workers[w].pc = "Terminated" =>
            /\ qsize(processes[w].queue) = 0
            /\ workers[w].done = Batch(w)
            /\ Len(workers[w].done) = workers[w].total

\* C8 (as claimed): the k-th report of a worker is (k/total), one report per
\* processed record.
C8_Progress ==
    \A w \in 1..Len(workers) :
        /\ workers[w].pc # "Failed" => Len(workers[w].reports) = Len(workers[w].done)
        /\ \A k \in 1..Len(workers[w].reports) :
              workers[w].reports[k] = <<k, workers[w].total>>

\* C9: with an empty clamped window nothing is ever enqueued, no batch is
\* handed off and no worker is started.
C9_EmptyWindow ==
    (pc \notin PreClamp /\ start = end) =>
        /\ \A q \in 1..Len(queues) : QContent(q) = <<>>
        /\ processes = <<>>
        /\ workers = <<>>

C9_Witness ==
    /\ pc = "summary"
    /\ start = end
    /\ range[1] > max_index
    /\ cur_index >= 1

\* C10 (as claimed): with an empty clamped window and W >= 1 the run does not
\* fail: it gets through the summary and exits normally.
C10_EmptyWindowNoError ==
    (pc \notin PreClamp /\ start = end /\ np >= 1) => pc # "crashed"

\* the --range value is given and is not two numerals with start <= end
Malformed ==
    /\ raw # <<>>
    /\ ~(/\ Len(raw) = 2
         /\ \E a, b \in 0..9 : a <= b /\ raw = <<Digits[a + 1], Digits[b + 1]>>)

\* nothing of the partitioning has happened: no row counted or read, no
\* queue created, no process started
NothingPartitioned ==
    /\ max_index = 0
    /\ cur_index = -1
    /\ queues = <<>>
    /\ processes = <<>>
    /\ workers = <<>>

\* C11: a malformed --range value is rejected by the argument parsing
\* (status 2) and the run never gets past it: no row is counted or read, no
\* queue is filled and no worker is started.
C11_MalformedRejected ==
    Malformed =>
        /\ pc \in {"parse", "usage_error"}
        /\ pc = "usage_error" => exit_code = 2
        /\ NothingPartitioned
        /\ ~file_open /\ ~client_open

C11_Witness ==
    /\ pc = "usage_error"
    /\ raw = <<"3", "">>
    /\ Len(journalists) > 0
    /\ np >= 1

\* C12: once the database refresh has raised an exception the run is over
\* with status 1, the destination file and the client are closed, and no row
\* has been counted or enqueued and no worker started.
C12_ExportFailure ==
    db_error =>
        /\ pc = "export_failed"
        /\ exit_code = 1
        /\ ~file_open /\ ~client_open
        /\ NothingPartitioned

C12_Witness ==
    /\ db_error
    /\ pc = "export_failed"
    /\ Len(journalists) > 0
    /\ np >= 1

\* the worker of the w-th handle has taken a row without a name
HitNameless(w) ==
    \E k \in 1..Len(workers[w].done) : workers[w].done[k] \in nameless

\* C13 (as claimed): a worker that hits a record whose processing fails does
\* not end on it, and has taken every record of its batch when it has
\* exited.
C13_FailureCaught ==
    \A w \in 1..Len(workers) :
        HitNameless(w) =>
            /\ workers[w].pc # "Failed"
            /\ Exited(w) => workers[w].done = Batch(w)

\* C14 (as claimed): when a worker has exited abnormally, every other worker
\* that has exited normally has processed all records of its batch.
C14_SiblingsComplete ==
    \A v, w \in 1..Len(workers) :
        (v # w /\ workers[v].pc = "Failed" /\ workers[w].pc = "Terminated") =>
            workers[w].done = Batch(w)

\* the batch of the w-th started process after the step
BatchNext(w) ==
    workers'[w].done \o queues'[processes'[w].queue].pipe
                    \o queues'[processes'[w].queue].buf

\* C15: a queue that has been handed to a process is not the queue being
\* filled, belongs to one process only, and the sequence of records put into
\* it never changes afterwards.
C15_FilledOnce ==
    /\ [](\A w \in Handed :
            /\ processes[w].queue # cur_queue
            /\ \A v \in Handed : processes[v].queue = processes[w].queue => v = w)
    /\ [][\A w \in Handed : BatchNext(w) = Batch(w)]_vars

C15_Witness ==
    /\ pc = "check"
    /\ Len(processes) >= 1
    /\ qsize(processes[1].queue) >= 1
    /\ qsize(cur_queue) >= 1

\* C16: for a non-empty window, whenever the loop is about to read the next
\* row the queue being filled is below the batch size (a full queue has
\* already been handed off); a process started from the loop gets a full
\* batch, and a process with a short batch is started only by the leftover
\* step after the loop.
C16_SpawnInterleaved ==
    /\ []((Partitioning /\ end > start /\ pc \in {"loop", "leftover"}) =>
              qsize(cur_queue) < CeilOf(end - start, np))
    /\ [][(Partitioning /\ end > start /\ Len(processes') > Len(processes)) =>
              LET k == Len(processes) + 1
                  B == CeilOf(end - start, np)
              IN  IF pc = "check"
                    THEN Len(BatchNext(k)) = B
                    ELSE pc = "leftover" /\ Len(BatchNext(k)) < B]_vars

C16_Witness ==
    /\ pc = "check"
    /\ Len(workers) >= 1
    /\ workers[1].pc = "Terminated"
    /\ Len(workers[1].done) >= 2
    /\ workers[1].done = Batch(1)
    /\ qsize(cur_queue) >= 1

\* C17: the k-th started process has ordinal k-1, the list of handles only
\* grows, a worker's colour is the palette entry at its ordinal modulo the
\* palette size, and the palette lookup repeats with the palette's period.
C17_Ordinals ==
    /\ [](/\ Len(workers) = Len(processes)
          /\ \A k \in Handed :
               /\ processes[k].process_id = k - 1
               /\ workers[k].pc # "Created" =>
                    /\ workers[k].process_id = k - 1
                    /\ workers[k].printclr = COLORS[((k - 1) % Len(COLORS)) + 1]
          /\ \A o \in 0..(2 * Len(COLORS) + 1) :
               printclr(o) = IF o < Len(COLORS) THEN COLORS[o + 1]
                             ELSE printclr(o - Len(COLORS)))
    /\ [][\A k \in Handed :
            Len(processes') >= k /\ processes'[k] = processes[k]]_vars

C17_Witness ==
    /\ pc = "join"
    /\ Len(processes) >= 2
    /\ joined = 0
    /\ workers[2].pc # "Created"
    /\ workers[2].process_id = 1

\* fair scheduling, for input files one row below the bound and --range
\* values of two parts or none: the main process, the feeder threads and every child
\* process keep running while they can take a step
FairInit ==
    /\ Init
    /\ Len(journalists) < MaxRecords
    /\ Len(raw) \in {0, RangeParts}

FairSpec ==
    /\ FairInit /\ [][Next]_vars
    /\ WF_vars(ParseArgs) /\ WF_vars(ApplyArgs)
    /\ WF_vars(RetrieveOpen) /\ WF_vars(RetrieveConnect) /\ WF_vars(RetrieveWrite)
    /\ WF_vars(ClampRange) /\ WF_vars(ComputeBatch)
    /\ WF_vars(LoopStep) /\ WF_vars(CheckSpawn) /\ WF_vars(Leftover)
    /\ WF_vars(JoinStep) /\ WF_vars(JoinDone)
    /\ WF_vars(Summary) /\ WF_vars(Exit)
    /\ WF_vars(\E q \in 1..Len(queues) : Feeder(q))
    /\ \A w \in 1..MaxNp :
          WF_vars(w <= Len(workers) /\ (WorkerInit(w) \/ WorkerCheck(w) \/ WorkerGet(w)))

\* C18: with W >= 1 and a non-empty clamped window, under fair scheduling
\* the run ends in os._exit(0) with every started child process exited and
\* every handle joined.
C18_Terminates ==
    (pc = "batch" /\ np >= 1 /\ end > start) ~>
        (/\ pc = "exited"
         /\ exit_code = 0
         /\ joined = Len(processes)
         /\ \A w \in 1..Len(workers) : Exited(w))

C18_Witness ==
    /\ pc = "exited"
    /\ exit_code = 0
    /\ Len(workers) >= 2
    /\ \A w \in 1..Len(workers) : workers[w].pc = "Terminated"

\* C19: with W = 0 the run ends at the batch-size computation: no queue is
\* created, no row is read, no process is started, and the join loop and the
\* summary are never reached.
C19_ZeroProcesses ==
    /\ [](np = 0 =>
            /\ pc \notin {"loop", "check", "leftover", "join", "summary",
                          "exit", "exited"}
            /\ cur_index = -1
            /\ queues = <<>>
            /\ processes = <<>>
            /\ workers = <<>>)
    /\ [][(np = 0 /\ pc = "batch") => (pc' = "crashed" /\ exit_code' = 1)]_vars

C19_Witness ==
    /\ np = 0
    /\ pc = "crashed"
    /\ end > start

====
